---- MODULE Spec2Model ----
(***************************************************************************)
(* A model of the documentation pipeline of src/leetcode_api.py:           *)
(* LeetCodeAPI.write_problems (with the metadata fetch it calls),          *)
(* write_mkdocs and write_readme, driven in the order of                   *)
(* src/leetcode_mkdocs.py.  Strings are TLA+ strings built by              *)
(* concatenation, so every f.write of the code is one written string.      *)
(***************************************************************************)
EXTENDS Integers, Sequences, FiniteSets, TLC

\* ------------------------------------------------------------- bounds
\* Frontend ids of the modelled catalog range over 1..MaxId.
MaxId == 2
\* A ledger cell holds at most MaxWays "; "-separated entries.
MaxWays == 3
\* likes and dislikes range over 0..MaxVotes.
MaxVotes == 10
\* The pipeline is invoked at most MaxRuns times on the same inputs.
MaxRuns == 2
\* The summary document has at most MaxLines lines.
MaxLines == 5

Ids == 1..MaxId

\* ---------------------------------------------------- module constants
BADGE_PREFIX == "<img src=\"https://img.shields.io/badge/"
BADGE_SUFFIX == ".svg?style=flat-square\" />\n"
sols_path == "solutions/"
problems_path == "mkdocs/docs/problems/"

\* ------------------------------------------------------ string helpers
\* "".join(parts)
RECURSIVE Concat(_)
Concat(parts) ==
  IF parts = <<>> THEN "" ELSE Head(parts) \o Concat(Tail(parts))

\* sep.join(parts)
RECURSIVE Join(_, _)
Join(sep, parts) ==
  IF parts = <<>> THEN ""
  ELSE IF Len(parts) = 1 THEN parts[1]
  ELSE parts[1] \o sep \o Join(sep, Tail(parts))

\* str(n) for a non-negative integer
Str(n) == ToString(n)

\* s.zfill(width): pad with "0" on the left up to width, never truncate
RECURSIVE zfill(_, _)
zfill(s, width) ==
  IF Len(s) >= width THEN s ELSE zfill("0" \o s, width)

\* cell.split("; ") of a cell given as its pieces, the delimiter "; "
\* being a piece of its own: "" splits into [""], never into [].
RECURSIVE SplitFrom(_, _, _)
SplitFrom(cell, k, cur) ==
  IF k > Len(cell) THEN <<cur>>
  ELSE IF cell[k] = "; " THEN <<cur>> \o SplitFrom(cell, k + 1, "")
  ELSE SplitFrom(cell, k + 1, cur \o cell[k])

Split(cell) == SplitFrom(cell, 1, "")

\* zip(a, b, c): stops at the shortest
Min3(a, b, c) ==
  IF a <= b THEN (IF a <= c THEN a ELSE c) ELSE (IF b <= c THEN b ELSE c)

Zip3(a, b, c) ==
  [k \in 1..Min3(Len(a), Len(b), Len(c)) |-> <<a[k], b[k], c[k]>>]

\* line.startswith(prefix), a line and a prefix being sequences of pieces
StartsWith(line, prefix) ==
  /\ Len(line) >= Len(prefix)
  /\ SubSeq(line, 1, Len(prefix)) = prefix

\* --------------------------------------------------- the inputs' shape
\* One entry of stat_status_pairs, as the catalog endpoint lists it.
SlugOf(id) == IF id = 2 THEN "bulb-switcher-iv" ELSE "problem-" \o Str(id)

TitleOf(id) == "Problem " \o Str(id)

CatalogEntry(id) ==
  [frontend_question_id |-> id,
   question__title_slug |-> SlugOf(id),
   question__title      |-> TitleOf(id),
   level                |-> ((id - 1) % 3) + 1]

\* self.problems.sort(key=frontend_question_id), from the set of listed ids
RECURSIVE SortById(_)
SortById(S) ==
  IF S = {} THEN <<>>
  ELSE LET m == CHOOSE x \in S : \A y \in S : x <= y
       IN  <<CatalogEntry(m)>> \o SortById(S \ {m})

\* What question["data"]["question"] can be: a question, or null (None).
NoneQuestion ==
  [isNone |-> TRUE, title |-> "", difficulty |-> "", likes |-> 0,
   dislikes |-> 0, topicTags |-> <<>>]

Question(title, difficulty, likes, dislikes, tags) ==
  [isNone |-> FALSE, title |-> title, difficulty |-> difficulty,
   likes |-> likes, dislikes |-> dislikes, topicTags |-> tags]

\* The tag -> colour table of the colors module (an allow-list), with two
\* tags listed.
colors == [t \in {"Array", "Depth-First Search"} |->
             IF t = "Array" THEN "4a90e2" ELSE "7ed321"]

\* ------------------------------------------------ pure formatting code
get_display_title(problem_no, title, link, emoji) ==
  LET display_title == "# [" \o Str(problem_no) \o ". " \o title \o "](" \o link \o ")"
  IN  IF emoji # "" THEN display_title \o " " \o emoji ELSE display_title

get_difficulty_color(difficulty) ==
  IF difficulty = "Easy" THEN "00a690"
  ELSE IF difficulty = "Medium" THEN "ffaf00"
  ELSE "ff284b"

\* problem_tag.replace('-', '--'), a tag being the sequence of its pieces
\* with every "-" a piece of its own
ReplaceDash(tag) ==
  Concat([k \in 1..Len(tag) |-> IF tag[k] = "-" THEN "--" ELSE tag[k]])

RECURSIVE get_tag_strings(_)
get_tag_strings(problem_tags) ==
  IF problem_tags = <<>> THEN <<>>
  ELSE LET problem_tag == Head(problem_tags)
           rest == get_tag_strings(Tail(problem_tags))
       IN  IF Concat(problem_tag) \in DOMAIN colors
           THEN <<"![](https://img.shields.io/badge/-" \o ReplaceDash(problem_tag)
                   \o "-" \o colors[Concat(problem_tag)]
                   \o ".svg?style=flat-square)">> \o rest
           ELSE rest

\* likes / votes > 0.8 and likes / votes < 0.5 in double precision: the
\* quotient is correctly rounded and 0.8 is the double nearest 4/5, so for
\* vote counts below 2^50 the comparisons agree with the exact ones.
get_emoji_inclusive(likes, dislikes) ==
  LET votes == likes + dislikes
  IN  IF votes = 0 THEN ""
      ELSE IF 5 * likes >= 4 * votes THEN ":thumbsup:"
      ELSE IF 2 * likes < votes THEN ":thumbsdown:"
      ELSE ""

get_emoji(likes, dislikes) ==
  LET votes == likes + dislikes
  IN  IF votes = 0 THEN ""
      ELSE IF 5 * likes > 4 * votes THEN ":thumbsup:"
      ELSE IF 2 * likes < votes THEN ":thumbsdown:"
      ELSE ""

\* ------------------------------------------------------------ state
VARIABLES
  problems,    \* self.problems: the catalog, sorted by frontend id
  records,     \* self.records: the ledger rows, in sheet order
  solutions,   \* the entries of the solutions/ directory
  server,      \* what the metadata endpoint answers for each slug
  pages,       \* the files under mkdocs/docs/problems/, by path
  mkdocs,      \* the lines of mkdocs/mkdocs.yml
  readme,      \* the lines of README.md, each a sequence of pieces
  pc,          \* where the run is: fetch, render, mkdocs, readme, done, raised
  pos,         \* the position in self.problems of the entry being rendered
  slug,        \* the slug __get_problem_by_slug was called with
  res,         \* the local res of __get_problem_by_slug
  retried,     \* whether this call re-issued its request after a failure
  question,    \* the question write_problems holds
  opened,      \* the page paths write_problems has opened in this run
  err,         \* the exception that ended the run, "" if none
  run,         \* the number of this invocation of the pipeline
  prev         \* the page files as the previous invocation left them

vars ==
  <<problems, records, solutions, server, pages, mkdocs, readme, pc, pos,
    slug, res, retried, question, opened, err, run, prev>>

inputs == <<problems, records, solutions, server>>

\* --------------------------------------------------- files and values
Chunk(kind, idx, text) == [kind |-> kind, idx |-> idx, text |-> text]

filled(n) == zfill(Str(n), 4)

PagePath(filled_num) == problems_path \o filled_num \o ".md"

PagePaths == {PagePath(filled(n)) : n \in Ids}

\* code_file.readlines() of a snippet file: its lines, the last one
\* without a newline
ReadLines(path) == <<"# " \o path \o "\n", "pass">>

NoResponse == [none |-> TRUE, ok |-> FALSE, data |-> NoneQuestion]

Response(ok, data) == [none |-> FALSE, ok |-> ok, data |-> data]

\* bool(res): None is falsy, a Response is truthy when its status is ok
Truthy(r) == ~r.none /\ r.ok

\* glob.glob(f"{self.sols_path}{filled_num}*"): the entries of solutions/
\* whose name starts with filled_num (entries are named by a 4-digit
\* prefix and what follows it, at most one entry to a prefix)
glob_sols(filled_num) == {e \in solutions : e.prefix = filled_num}

EntryPath(e) == sols_path \o e.prefix \o e.rest

\* ------------------------------------------------------- __write_code
\* The Markdown code fence, three backquotes in the code: a TLA+ string
\* admits no backquote, so three apostrophes stand for them.
FENCE == "'''"

Languages == <<<<"cpp", "cpp", "C++">>, <<"java", "java", "Java">>, <<"py", "python", "Python">>>>

suffix_always(approach_index) == "-" \o Str(approach_index)

suffix(approach_index) ==
  IF approach_index = 1 THEN "" ELSE "-" \o Str(approach_index)

write_code_one(filled_num, match, approach_index, l) ==
  LET extension == Languages[l][1]
      lang == Languages[l][2]
      tab == Languages[l][3]
      name == filled_num \o suffix(approach_index) \o "." \o extension
      code_file_dir == EntryPath(match) \o "/" \o name
      lines == ReadLines(code_file_dir)
  IN  IF name \notin match.files THEN <<>>
      ELSE <<Chunk("tab", approach_index, "=== \"" \o tab \o "\"\n\n"),
             Chunk("fence", approach_index, "    " \o FENCE \o lang \o "\n")>>
           \o [k \in 1..Len(lines) |-> Chunk("code", approach_index, "    " \o lines[k])]
           \o <<Chunk("nl", approach_index, "\n"),
                Chunk("fence_end", approach_index, "    " \o FENCE),
                Chunk("gap", approach_index, "\n\n")>>

write_code(filled_num, match, approach_index) ==
  write_code_one(filled_num, match, approach_index, 1)
  \o write_code_one(filled_num, match, approach_index, 2)
  \o write_code_one(filled_num, match, approach_index, 3)

\* ---------------------------------------- write_problems: one page
\* The header every page gets: lines 172-184.
page_header(problem, q) ==
  LET frontend_question_id == problem.frontend_question_id
      i == frontend_question_id - 1
      link == "https://leetcode.com/problems/" \o problem.question__title_slug
      emoji == get_emoji(q.likes, q.dislikes)
      display_title == get_display_title(i + 1, q.title, link, emoji)
      difficulty_color == get_difficulty_color(q.difficulty)
      difficulty_string == "![](https://img.shields.io/badge/-" \o q.difficulty
                           \o "-" \o difficulty_color \o ".svg?style=for-the-badge)"
      tag_strings == get_tag_strings(q.topicTags)
  IN  <<Chunk("title", 0, display_title \o "\n\n"),
        Chunk("difficulty", 0, difficulty_string),
        Chunk("sep", 0, "\n\n"),
        Chunk("tags", 0, Join(" ", tag_strings) \o "\n\n")>>

\* The loop of lines 193-201 from the triple at position approach_index on.
RECURSIVE approach_sections(_, _, _, _)
approach_sections(triples, approach_index, filled_num, match) ==
  IF approach_index > Len(triples) THEN <<>>
  ELSE LET way == triples[approach_index][1]
           time_complexity == triples[approach_index][2]
           space_complexity == triples[approach_index][3]
       IN  <<Chunk("approach", approach_index,
                   "## Approach " \o Str(approach_index) \o ": " \o way \o "\n\n"),
             Chunk("time", approach_index, "- [x] **Time:** " \o time_complexity \o "\n"),
             Chunk("space", approach_index, "- [x] **Space:** " \o space_complexity \o "\n"),
             Chunk("blank", approach_index, "\n")>>
           \o write_code(filled_num, match, approach_index)
           \o approach_sections(triples, approach_index + 1, filled_num, match)

\* The body of a solved problem: lines 191-208.
page_body(row, filled_num, match) ==
  LET time_complexities == Split(row.Time)
      space_complexities == Split(row.Space)
      ways == Split(row.Ways)
  IN  IF Len(ways) > 1
      THEN approach_sections(Zip3(ways, time_complexities, space_complexities),
                             1, filled_num, match)
      ELSE (IF time_complexities # <<>>
            THEN <<Chunk("time", 0, "- [x] **Time:** " \o time_complexities[1] \o "\n")>>
            ELSE <<>>)
           \o (IF space_complexities # <<>>
               THEN <<Chunk("space", 0, "- [x] **Space:** " \o space_complexities[1] \o "\n")>>
               ELSE <<>>)
           \o <<Chunk("blank", 0, "\n")>>
           \o write_code(filled_num, match, 1)

\* What a page holds when no solution entry matches: line 188-189, the
\* continue leaves the header alone.
unsolved_page_with_block(header) == header \o <<Chunk("blank", 0, "\n")>>

unsolved_page(header) == header

\* open(path, "w") then the writes: the file holds what was written.
write_file_append(old, written) == old \o written

write_file(old, written) == written

\* The file name write_problems gives the page of an entry: line 141-142.
page_filled_num_by_position(problem, position) == filled(position)

page_filled_num(problem, position) ==
  LET i == problem.frontend_question_id - 1
  IN  filled(i + 1)

\* ------------------------------------------------------- write_mkdocs
nav_line(problem) ==
  LET frontend_question_id == problem.frontend_question_id
      title == problem.question__title
  IN  "      - \"" \o Str(frontend_question_id) \o ". " \o title \o "\": problems/"
      \o zfill(Str(frontend_question_id), 4) \o ".md\n"

mkdocs_written ==
  <<"  - Problems:\n">> \o [k \in 1..Len(problems) |-> nav_line(problems[k])]

\* open("mkdocs/mkdocs.yml", "a+") then the writes
append_file_truncating(old, written) == written

append_file(old, written) == old \o written

\* ------------------------------------------------------- write_readme
\* self.res["num_total"]: the catalog endpoint's count of its own list
\* (catalogs are non-empty, so the division of line 238 is defined)
num_total == Len(problems)

prob_count(level) ==
  Cardinality({k \in 1..Len(problems) : problems[k].level = level})

ac_count(level) ==
  Cardinality({k \in 1..Len(problems) :
                 /\ problems[k].level = level
                 /\ glob_sols(zfill(Str(problems[k].frontend_question_id), 4)) # {}})

num_solved == ac_count(1) + ac_count(2) + ac_count(3)

\* str(round(solved / total * 100, 2)): the hundredths, rounded half to
\* even, printed without a trailing zero but with one decimal at least
solved_percentage(solved, total) ==
  LET f == (solved * 10000) \div total
      r == (solved * 10000) % total
      h == IF 2 * r > total THEN f + 1
           ELSE IF 2 * r = total THEN f + (f % 2)
           ELSE f
  IN  Str(h \div 100) \o "."
      \o (IF h % 10 = 0 THEN Str((h % 100) \div 10) ELSE zfill(Str(h % 100), 2))

\* The four badges, each the pieces of one line: the prefix, the label,
\* the figures, the suffix.
solved_badge ==
  <<BADGE_PREFIX, "Solved",
    "-" \o Str(num_solved) \o "/" \o Str(num_total) \o "%20=%20"
      \o solved_percentage(num_solved, num_total) \o "%25-blue",
    BADGE_SUFFIX>>

level_badge(label, level, color) ==
  <<BADGE_PREFIX, label,
    "-" \o Str(ac_count(level)) \o "/" \o Str(prob_count(level)) \o "-" \o color,
    BADGE_SUFFIX>>

easy_badge == level_badge("Easy", 1, "5CB85D")

medium_badge == level_badge("Medium", 2, "F0AE4E")

hard_badge == level_badge("Hard", 3, "D95450")

SOLVED_MARKER == <<BADGE_PREFIX, "Solved">>

\* The loop of lines 249-251: the 0-based index i it leaves, the first
\* marker line's or else the last line's; -1 stands for i never bound.
find_marker(original_readme) ==
  LET hits == {k \in 1..Len(original_readme) : StartsWith(original_readme[k], SOLVED_MARKER)}
  IN  IF original_readme = <<>> THEN -1
      ELSE IF hits # {} THEN (CHOOSE k \in hits : \A j \in hits : k <= j) - 1
      ELSE Len(original_readme) - 1

\* Lines 253-256 on the list read from the file: the four assignments.
replace_lines_adjacent(original_readme, i) ==
  [k \in 1..Len(original_readme) |->
     IF k = i + 1 THEN solved_badge
     ELSE IF k = i + 2 THEN easy_badge
     ELSE IF k = i + 3 THEN medium_badge
     ELSE IF k = i + 4 THEN hard_badge
     ELSE original_readme[k]]

replace_lines(original_readme, i) ==
  [k \in 1..Len(original_readme) |->
     IF k = i + 1 THEN solved_badge
     ELSE IF k = i + 3 THEN easy_badge
     ELSE IF k = i + 4 THEN medium_badge
     ELSE IF k = i + 5 THEN hard_badge
     ELSE original_readme[k]]

\* What lines 245-260 do to README.md: the exception raised ("" if none)
\* and the lines the file holds afterwards.
write_readme_clamped(original_readme) ==
  LET i == find_marker(original_readme)
  IN  IF i < 0 THEN [err |-> "", lines |-> original_readme]
      ELSE [err |-> "", lines |-> replace_lines(original_readme, i)]

write_readme_result(original_readme) ==
  LET i == find_marker(original_readme)
  IN  IF i < 0
      THEN [err |-> "UnboundLocalError", lines |-> original_readme]
      ELSE IF i + 4 > Len(original_readme) - 1
      THEN [err |-> "IndexError", lines |-> original_readme]
      ELSE [err |-> "", lines |-> replace_lines(original_readme, i)]

\* ------------------------------------------------------------ actions
\* Entering __get_problem_by_slug for the entry at position k, or leaving
\* the loop of write_problems when there is none.
StartEntry(k) ==
  IF k <= Len(problems)
  THEN /\ pc' = "fetch"
       /\ slug' = problems[k].question__title_slug
  ELSE /\ pc' = "mkdocs"
       /\ slug' = ""

\* Whether the loop of lines 75-76 makes another request.
loop_again_once(r, seen_failure) == ~Truthy(r) /\ ~seen_failure

loop_again(r, seen_failure) == ~Truthy(r)

\* What the loop hands on once it is left: lines 77-78.
returned_data(r) == r.data

\* One turn of the loop of lines 75-76: session.post answers with an ok
\* response, with an error response, or raises (timeout=10).
PostAttempt ==
  /\ pc = "fetch"
  /\ loop_again(res, retried)
  /\ \E outcome \in {"ok", "bad", "raise"} :
       IF outcome = "raise"
       THEN /\ pc' = "raised"
            /\ err' = "Timeout"
            /\ UNCHANGED <<res, retried>>
       ELSE /\ res' = Response(outcome = "ok",
                               IF outcome = "ok" THEN server[slug] ELSE NoneQuestion)
            /\ retried' = (retried \/ ~res.none)
            /\ UNCHANGED <<pc, err>>
  /\ UNCHANGED <<inputs, pages, mkdocs, readme, pos, slug, question, opened, run, prev>>

\* Lines 77-78 and the caller's lines 145-154: the response's question is
\* returned; for the renamed slug the replacement slug is fetched next.
FetchReturn ==
  /\ pc = "fetch"
  /\ ~loop_again(res, retried)
  /\ question' = returned_data(res)
  /\ IF slug = "bulb-switcher-iv"
     THEN /\ slug' = "minimum-suffix-flips"
          /\ res' = NoResponse
          /\ pc' = "fetch"
          /\ retried' = FALSE
     ELSE /\ pc' = "render"
          /\ UNCHANGED <<slug, res, retried>>
  /\ UNCHANGED <<inputs, pages, mkdocs, readme, pos, opened, err, run, prev>>

\* Lines 156-208 for the entry at pos: the page is opened for writing, the
\* header written, and the body when a solution entry matches; then the
\* loop goes to the next entry.
Render ==
  /\ pc = "render"
  /\ LET problem == problems[pos]
         frontend_question_id == problem.frontend_question_id
         i == frontend_question_id - 1
         filled_num == page_filled_num(problem, pos)
         path == PagePath(filled_num)
         matches == glob_sols(filled_num)
     IN  IF question.isNone
         THEN /\ pc' = "raised"
              /\ err' = "TypeError"
              /\ UNCHANGED <<pages, pos, slug, res, retried, opened>>
         ELSE IF i + 1 > Len(records)
         THEN /\ pc' = "raised"
              /\ err' = "IndexError"
              /\ UNCHANGED <<pages, pos, slug, res, retried, opened>>
         ELSE /\ IF matches = {}
                 THEN pages' = [pages EXCEPT ![path] =
                        write_file(@, unsolved_page(page_header(problem, question)))]
                 ELSE \E first \in matches :
                        pages' = [pages EXCEPT ![path] =
                          write_file(@, page_header(problem, question)
                                        \o page_body(records[i + 1], filled_num, first))]
              /\ opened' = Append(opened, path)
              /\ pos' = pos + 1
              /\ res' = NoResponse
              /\ retried' = FALSE
              /\ StartEntry(pos + 1)
              /\ UNCHANGED err
  /\ UNCHANGED <<inputs, mkdocs, readme, question, run, prev>>

\* write_mkdocs: lines 212-218.
WriteMkdocs ==
  /\ pc = "mkdocs"
  /\ mkdocs' = append_file(mkdocs, mkdocs_written)
  /\ pc' = "readme"
  /\ UNCHANGED <<inputs, pages, readme, pos, slug, res, retried, question,
                 opened, err, run, prev>>

\* write_readme: lines 222-260.
WriteReadme ==
  /\ pc = "readme"
  /\ LET result == write_readme_result(readme)
     IN  /\ readme' = result.lines
         /\ err' = result.err
         /\ pc' = IF result.err = "" THEN "done" ELSE "raised"
  /\ UNCHANGED <<inputs, pages, mkdocs, pos, slug, res, retried, question,
                 opened, run, prev>>

\* The pipeline is invoked again on the same inputs: src/leetcode_mkdocs.py
\* from its first line, the files on disk being what the last run left.
Rerun ==
  /\ pc = "done"
  /\ run < MaxRuns
  /\ run' = run + 1
  /\ prev' = pages
  /\ pos' = 1
  /\ res' = NoResponse
  /\ retried' = FALSE
  /\ question' = NoneQuestion
  /\ opened' = <<>>
  /\ err' = ""
  /\ StartEntry(1)
  /\ UNCHANGED <<inputs, pages, mkdocs, readme>>

Next ==
  \/ PostAttempt
  \/ FetchReturn
  \/ Render
  \/ WriteMkdocs
  \/ WriteReadme
  \/ Rerun

\* ------------------------------------------------------ initial states
\* A ledger cell with n entries joined by "; " (n = 0: the empty cell).
Cell(label, n) ==
  [j \in 1..(IF n = 0 THEN 0 ELSE 2 * n - 1) |->
     IF j % 2 = 1 THEN label \o Str((j + 1) \div 2) ELSE "; "]

Row(nw, nt, ns) ==
  [Ways |-> Cell("Way", nw), Time |-> Cell("O(n)^", nt), Space |-> Cell("O(1)+", ns)]

Slugs == {SlugOf(id) : id \in Ids} \cup {"minimum-suffix-flips"}

Tags == <<<<"Array">>, <<"Depth", "-", "First Search">>, <<"Unlisted">>>>

\* The endpoint knows every slug but the renamed one.
ServerWith(q) ==
  [s \in Slugs |-> IF s = "bulb-switcher-iv" THEN NoneQuestion ELSE q]

PlainQuestion == Question("Some Title", "Medium", 3, 1, Tags)

\* A solutions/ entry of problem id holding the snippets of the given
\* suffix numbers (0: no suffix) in the given extensions.
SolutionEntry(id, suffixes, extensions) ==
  [prefix |-> filled(id),
   rest   |-> ". " \o TitleOf(id),
   files  |-> {filled(id) \o (IF k = 0 THEN "" ELSE "-" \o Str(k)) \o "." \o e :
                 k \in suffixes, e \in extensions}]

OldBadge(label) == <<BADGE_PREFIX, label, "-0/0-old", BADGE_SUFFIX>>

GoodReadme ==
  <<<<"# LeetCode\n">>, OldBadge("Solved"), <<"\n">>, OldBadge("Easy"),
    OldBadge("Medium"), OldBadge("Hard"), <<"footer\n">>>>

\* What the generated files hold before the first run: nothing, or
\* something left from before.
InitFiles(stale) ==
  /\ pages = [path \in PagePaths |->
                IF stale THEN <<Chunk("stale", 0, "left over\n")>> ELSE <<>>]
  /\ mkdocs = IF stale THEN <<"site_name: LeetCode\n", "nav:\n">> ELSE <<>>

\* The state right after LeetCodeAPI(argv) with len(argv) = 1.
InitControl ==
  /\ pc = "fetch"
  /\ pos = 1
  /\ slug = problems[1].question__title_slug
  /\ res = NoResponse
  /\ retried = FALSE
  /\ question = NoneQuestion
  /\ opened = <<>>
  /\ err = ""
  /\ run = 1
  /\ prev = pages

\* Any non-empty catalog over Ids, every problem with one or two
\* approaches in the ledger, and solved or not.
Init ==
  /\ problems \in {SortById(S) : S \in (SUBSET Ids) \ {{}}}
  /\ records \in [Ids -> {Row(1, 1, 1), Row(2, 2, 2)}]
  /\ solutions \in SUBSET {SolutionEntry(id, {0, 2}, {"py", "cpp"}) : id \in Ids}
  /\ server = ServerWith(PlainQuestion)
  /\ readme = GoodReadme
  /\ \E stale \in BOOLEAN : InitFiles(stale)
  /\ InitControl

Spec == Init /\ [][Next]_vars

\* One problem, with every shape of ledger row and of solutions/ entry:
\* 0..MaxWays entries in each cell, snippets for any set of suffixes; or a
\* ledger that ends before the problem's row.
Rows ==
  {Row(nw, nt, ns) : nw \in 0..MaxWays, nt \in 0..MaxWays, ns \in 0..MaxWays}

InitRender ==
  /\ problems = SortById({MaxId})
  /\ records \in
       {[j \in Ids |-> IF j = MaxId THEN row ELSE Row(1, 1, 1)] : row \in Rows}
       \cup {[j \in 1..(MaxId - 1) |-> Row(1, 1, 1)]}
  /\ solutions \in
       {{}} \cup {{SolutionEntry(MaxId, S, E)} :
                    S \in SUBSET (0..MaxWays), E \in {{"py"}, {"cpp", "java", "py"}}}
  /\ server = ServerWith(PlainQuestion)
  /\ readme = GoodReadme
  /\ InitFiles(FALSE)
  /\ InitControl

SpecRender == InitRender /\ [][Next]_vars

\* One problem, with every metadata the endpoint can answer: any votes up
\* to MaxVotes, any difficulty string, or no question at all.
Difficulties == {"Easy", "Medium", "Hard", "Unknown"}

InitMeta ==
  /\ problems = SortById({1})
  /\ records = [j \in Ids |-> Row(1, 1, 1)]
  /\ solutions = {SolutionEntry(1, {0}, {"py"})}
  /\ server \in
       {ServerWith(Question("Some Title", d, l, dl, Tags)) :
          d \in Difficulties, l \in 0..MaxVotes, dl \in 0..MaxVotes}
       \cup {ServerWith(NoneQuestion)}
  /\ readme = GoodReadme
  /\ InitFiles(FALSE)
  /\ InitControl

SpecMeta == InitMeta /\ [][Next]_vars

\* One problem, with every summary document of at most MaxLines lines
\* made of a marker line, another badge line and a line of text.
ReadmeLines == {OldBadge("Solved"), OldBadge("Easy"), <<"text\n">>}

Readmes == UNION {[1..n -> ReadmeLines] : n \in 0..MaxLines}

InitReadme ==
  /\ problems = SortById({1})
  /\ records = [j \in Ids |-> Row(1, 1, 1)]
  /\ solutions \in SUBSET {SolutionEntry(1, {0}, {"py"})}
  /\ server = ServerWith(PlainQuestion)
  /\ readme \in Readmes
  /\ InitFiles(FALSE)
  /\ InitControl

SpecReadme == InitReadme /\ [][Next]_vars

\* The runs of Spec in which the process keeps taking its next step: the
\* code runs one statement after the other and nothing else schedules it.
InitFetch ==
  /\ problems \in {SortById(S) : S \in (SUBSET Ids) \ {{}}}
  /\ records = [j \in Ids |-> Row(1, 1, 1)]
  /\ solutions \in SUBSET {SolutionEntry(id, {0}, {"py"}) : id \in Ids}
  /\ server = ServerWith(PlainQuestion)
  /\ readme = GoodReadme
  /\ InitFiles(FALSE)
  /\ InitControl

FairSpec == InitFetch /\ [][Next]_vars /\ WF_vars(Next)

\* ======================================================= the claims
\* The question write_problems ends up holding for a catalog entry: the
\* endpoint's answer for its slug, or for the replacement slug.
ServedFor(problem) ==
  IF problem.question__title_slug = "bulb-switcher-iv"
  THEN server["minimum-suffix-flips"]
  ELSE server[problem.question__title_slug]

\* The positions of the catalog whose page this run has written.
Rendered == 1..Len(opened)

LinkOf(problem) == "https://leetcode.com/problems/" \o problem.question__title_slug

\* C1's indicator, from the ratio likes / (likes + dislikes) in tenths.
SentimentOf(l, d) ==
  IF l + d = 0 THEN ""
  ELSE IF 10 * l > 8 * (l + d) THEN ":thumbsup:"
  ELSE IF 10 * l < 5 * (l + d) THEN ":thumbsdown:"
  ELSE ""

TitleWith(problem, q, token) ==
  "# [" \o Str(problem.frontend_question_id) \o ". " \o q.title \o "]("
  \o LinkOf(problem) \o ")" \o (IF token = "" THEN "" ELSE " " \o token) \o "\n\n"

\* C1: for all votes, the title line of a rendered page carries no
\* indicator when there are no votes, :thumbsup: when the like ratio is
\* above 0.8, :thumbsdown: when it is below 0.5, and none otherwise (none
\* at exactly 0.8 and at exactly 0.5).
C1_Emoji ==
  \A k \in Rendered :
    LET q == ServedFor(problems[k])
    IN  pages[opened[k]][1].text
          = TitleWith(problems[k], q, SentimentOf(q.likes, q.dislikes))

\* A page was rendered for a problem whose like ratio is exactly 0.8.
C1_Witness ==
  /\ pc = "done"
  /\ \E k \in Rendered :
       LET q == ServedFor(problems[k])
       IN  /\ q.likes + q.dislikes > 0
           /\ 5 * q.likes = 4 * (q.likes + q.dislikes)
           /\ pages[opened[k]][1].text = TitleWith(problems[k], q, "")

DifficultyBadge(difficulty, color) ==
  "![](https://img.shields.io/badge/-" \o difficulty \o "-" \o color
  \o ".svg?style=for-the-badge)"

BadgeColors == {"00a690", "ffaf00", "ff284b"}

\* C8: the difficulty badge of a rendered page is 00a690 for Easy, ffaf00
\* for Medium and ff284b for Hard, and a difficulty outside these three
\* gets none of the three colours.
C8_ClosedMapping ==
  \A k \in Rendered :
    LET d == ServedFor(problems[k]).difficulty
        badge == pages[opened[k]][2].text
    IN  /\ d = "Easy" => badge = DifficultyBadge(d, "00a690")
        /\ d = "Medium" => badge = DifficultyBadge(d, "ffaf00")
        /\ d = "Hard" => badge = DifficultyBadge(d, "ff284b")
        /\ d \notin {"Easy", "Medium", "Hard"} =>
             \A c \in BadgeColors : badge # DifficultyBadge(d, c)

\* ---- reading a page back
KindPositions(page, kind) == {j \in 1..Len(page) : page[j].kind = kind}

\* The k-th smallest element of a set of numbers.
NthOf(S, k) == CHOOSE x \in S : Cardinality({y \in S : y < x}) = k - 1

RECURSIVE TextsOfKind(_, _, _, _)
TextsOfKind(page, kind, from, to) ==
  IF from > to THEN <<>>
  ELSE (IF page[from].kind = kind THEN <<page[from].text>> ELSE <<>>)
       \o TextsOfKind(page, kind, from + 1, to)

\* The name C2 gives the snippet of approach k in one extension.
SnippetName(id, k, extension) ==
  zfill(Str(id), 4) \o (IF k = 1 THEN "" ELSE "-" \o Str(k)) \o "." \o extension

\* The indented lines of the snippets of approach k that exist, in the
\* order C++, Java, Python.
RECURSIVE SnippetLines(_, _, _, _)
SnippetLines(id, entry, k, extensions) ==
  IF extensions = <<>> THEN <<>>
  ELSE LET name == SnippetName(id, k, Head(extensions))
           lines == ReadLines(EntryPath(entry) \o "/" \o name)
       IN  (IF name \in entry.files
            THEN [j \in 1..Len(lines) |-> "    " \o lines[j]]
            ELSE <<>>)
           \o SnippetLines(id, entry, k, Tail(extensions))

Extensions == <<"cpp", "java", "py">>

\* Subsection j of a page with n subsections: its heading, its time and
\* space lines, and the snippets embedded before the next heading.
SubsectionIs(page, n, j, id, entry, way, time, space) ==
  LET A == KindPositions(page, "approach")
      a == NthOf(A, j)
      last == IF j = n THEN Len(page) ELSE NthOf(A, j + 1) - 1
  IN  /\ page[a].text = "## Approach " \o Str(j) \o ": " \o way \o "\n\n"
      /\ last >= a + 2
      /\ page[a + 1].text = "- [x] **Time:** " \o time \o "\n"
      /\ page[a + 2].text = "- [x] **Space:** " \o space \o "\n"
      /\ TextsOfKind(page, "time", a, last) = <<page[a + 1].text>>
      /\ TextsOfKind(page, "space", a, last) = <<page[a + 2].text>>
      /\ TextsOfKind(page, "code", a, last) = SnippetLines(id, entry, j, Extensions)

\* C2: the page of a solved problem with n > 1 approach labels and n time
\* and n space entries has exactly n subsections, numbered 1..n in input
\* order, subsection k embedding the snippets of approach index k (no
\* suffix for k = 1, suffix -k otherwise); with at most one label it has a
\* single unlabeled time/space block and the snippets of approach 1.
C2_Subsections ==
  \A k \in Rendered :
    LET id == problems[k].frontend_question_id
        row == records[id]
        ways == Split(row.Ways)
        times == Split(row.Time)
        spaces == Split(row.Space)
        n == Len(ways)
        page == pages[opened[k]]
        matches == glob_sols(zfill(Str(id), 4))
        entry == CHOOSE e \in matches : TRUE
        A == KindPositions(page, "approach")
    IN  matches # {} =>
          /\ (n > 1 /\ Len(times) = n /\ Len(spaces) = n) =>
               /\ Cardinality(A) = n
               /\ NthOf(A, 1) = 5
               /\ \A j \in 1..n :
                    SubsectionIs(page, n, j, id, entry, ways[j], times[j], spaces[j])
          /\ n <= 1 =>
               /\ A = {}
               /\ Len(page) >= 7
               /\ page[5].text = "- [x] **Time:** " \o times[1] \o "\n"
               /\ page[6].text = "- [x] **Space:** " \o spaces[1] \o "\n"
               /\ TextsOfKind(page, "time", 1, Len(page)) = <<page[5].text>>
               /\ TextsOfKind(page, "space", 1, Len(page)) = <<page[6].text>>
               /\ TextsOfKind(page, "code", 1, Len(page))
                    = SnippetLines(id, entry, 1, Extensions)

\* A page with three subsections was rendered, the first and the second
\* with a snippet of their own.
C2_Witness ==
  /\ pc = "done"
  /\ \E k \in Rendered :
       LET id == problems[k].frontend_question_id
           row == records[id]
           page == pages[opened[k]]
           matches == glob_sols(zfill(Str(id), 4))
       IN  /\ Len(Split(row.Ways)) = 3
           /\ Len(Split(row.Time)) = 3
           /\ Len(Split(row.Space)) = 3
           /\ \E e \in matches :
                /\ SnippetName(id, 1, "py") \in e.files
                /\ SnippetName(id, 2, "py") \in e.files
                /\ SnippetName(id, 3, "py") \notin e.files
           /\ Cardinality(KindPositions(page, "approach")) = 3
           /\ Len(TextsOfKind(page, "code", 1, Len(page))) = 4

\* ---- C3, C4, C5, C10: the catalog as a whole
HeaderKinds == <<"title", "difficulty", "sep", "tags">>

\* C3: an entry with no path under solutions/ matching its 4-digit prefix
\* gets a page of the header only (title line, difficulty badge, tag
\* badges: no time/space block, no subsection, no code), rendering it
\* raises nothing, and the loop goes on to the remaining entries.
C3_HeaderOnly ==
  /\ \A k \in Rendered :
       LET id == problems[k].frontend_question_id
           page == pages[opened[k]]
       IN  glob_sols(zfill(Str(id), 4)) = {} =>
             /\ Len(page) = 4
             /\ [j \in 1..4 |-> page[j].kind] = HeaderKinds
             /\ page[1].text = TitleWith(problems[k], ServedFor(problems[k]),
                                         SentimentOf(ServedFor(problems[k]).likes,
                                                     ServedFor(problems[k]).dislikes))
  /\ err \in {"", "Timeout"}
  /\ pc \in {"fetch", "render"} => Len(opened) = pos - 1
  /\ pc \in {"mkdocs", "readme", "done"} => Len(opened) = Len(problems)

\* The run is over, the first of two entries had no snippet, and the
\* second, which has some, was rendered after it.
C3_Witness ==
  /\ pc = "done"
  /\ Len(problems) = 2
  /\ glob_sols(zfill(Str(problems[1].frontend_question_id), 4)) = {}
  /\ glob_sols(zfill(Str(problems[2].frontend_question_id), 4)) # {}
  /\ Len(pages[opened[1]]) = 4
  /\ Len(pages[opened[2]]) > 4

\* C4: a second run of write_problems on the same inputs leaves every
\* page file as the first run left it, whatever the files held before.
C4_Idempotent ==
  (run >= 2 /\ pc \in {"mkdocs", "readme", "done"}) => pages = prev

\* A second run finished rendering; before the first run the page files
\* held something else, and one page has a body.
C4_Witness ==
  /\ run = 2
  /\ pc = "done"
  /\ mkdocs[1] = "site_name: LeetCode\n"
  /\ \E k \in Rendered : Len(pages[opened[k]]) > 4

\* The catalog's frontend ids, and the navigation line of one of them.
CatalogIds == {problems[k].frontend_question_id : k \in 1..Len(problems)}

TitleInCatalog(id) ==
  (CHOOSE e \in {problems[k] : k \in 1..Len(problems)} :
     e.frontend_question_id = id).question__title

NavText(id) ==
  "      - \"" \o Str(id) \o ". " \o TitleInCatalog(id) \o "\": problems/"
  \o zfill(Str(id), 4) \o ".md\n"

\* C5: write_mkdocs only appends: the document afterwards is the document
\* before, then one header line, then one line per catalog entry in
\* ascending frontend-id order, each mapping "<id>. <title>" to
\* problems/<id padded to 4 digits>.md; so every run adds a full block.
C5_AppendOnly ==
  [][pc = "mkdocs" =>
       LET n == Len(mkdocs)
           m == Cardinality(CatalogIds)
       IN  /\ Len(mkdocs') = n + 1 + m
           /\ SubSeq(mkdocs', 1, n) = mkdocs
           /\ mkdocs'[n + 1] = "  - Problems:\n"
           /\ \A j \in 1..m : mkdocs'[n + 1 + j] = NavText(NthOf(CatalogIds, j))]_vars

\* The second run has appended its block after the first run's, which
\* follows what the document held before; the catalog has two entries.
C5_Witness ==
  /\ run = 2
  /\ pc = "done"
  /\ Len(problems) = 2
  /\ Len(mkdocs) = 2 + 2 * 3
  /\ mkdocs[1] = "site_name: LeetCode\n"
  /\ mkdocs[3] = mkdocs[6]

\* C10 as stated: the page of a catalog entry is named by the entry's
\* position in the catalog, so that the page name and the navigation
\* link agree only when the frontend ids are 1, 2, 3, ... without gaps.
C10_NamedByPosition ==
  \A k \in Rendered : opened[k] = problems_path \o zfill(Str(k), 4) \o ".md"

\* C10 amended: the page of a catalog entry is named by the entry's
\* frontend id padded to 4 digits, the name its navigation line links, so
\* the two agree for every catalog, gaps or not.
C10_NamedById ==
  \A k \in Rendered :
    LET id == problems[k].frontend_question_id
        name == zfill(Str(id), 4)
    IN  /\ opened[k] = problems_path \o name \o ".md"
        /\ pc \in {"readme", "done"} =>
             mkdocs[Len(mkdocs) - Len(problems) + k]
               = "      - \"" \o Str(id) \o ". " \o problems[k].question__title
                 \o "\": problems/" \o name \o ".md\n"

\* The run is over for a catalog whose ids do not start at 1.
C10_Witness ==
  /\ pc = "done"
  /\ problems[1].frontend_question_id # 1
  /\ Len(opened) = Len(problems)

\* ---- C6, C7: the summary document
IsMarker(line) ==
  /\ Len(line) >= 2
  /\ line[1] = "<img src=\"https://img.shields.io/badge/"
  /\ line[2] = "Solved"

MarkerLines(doc) == {k \in 1..Len(doc) : IsMarker(doc[k])}

BadgeFor(line, label) ==
  /\ Len(line) = 4
  /\ line[1] = "<img src=\"https://img.shields.io/badge/"
  /\ line[2] = label
  /\ line[4] = ".svg?style=flat-square\" />\n"

\* C6: when the summary document has a marker line and at least four
\* lines follow the first one, at line i, write_readme overwrites line i
\* with the overall badge and lines i+2, i+3, i+4 with the easy, medium
\* and hard badges, and leaves every other line (line i+1 and any later
\* marker line included) and the number of lines as they were.
C6_FourLines ==
  [][(pc = "readme" /\ MarkerLines(readme) # {}
        /\ Len(readme) >= NthOf(MarkerLines(readme), 1) + 4) =>
       LET i == NthOf(MarkerLines(readme), 1)
       IN  /\ pc' = "done"
           /\ Len(readme') = Len(readme)
           /\ BadgeFor(readme'[i], "Solved")
           /\ BadgeFor(readme'[i + 2], "Easy")
           /\ BadgeFor(readme'[i + 3], "Medium")
           /\ BadgeFor(readme'[i + 4], "Hard")
           /\ \A k \in 1..Len(readme) :
                k \notin {i, i + 2, i + 3, i + 4} => readme'[k] = readme[k]]_vars

\* write_readme has run on a document whose first line was the marker:
\* the line after it is a second marker line, left as it was, and the three
\* lines after that are the new badges.
C6_Witness ==
  /\ pc = "done"
  /\ Len(readme) = 5
  /\ BadgeFor(readme[1], "Solved")
  /\ readme[1] # OldBadge("Solved")
  /\ readme[2] = OldBadge("Solved")
  /\ BadgeFor(readme[3], "Easy")
  /\ BadgeFor(readme[5], "Hard")

\* C7 as stated: with no marker line in the summary document write_readme
\* raises nothing, completes, and has written the badges into the file at
\* some other offset.
C7_SilentCorruption ==
  [][(pc = "readme" /\ MarkerLines(readme) = {}) =>
       (pc' = "done" /\ err' = "" /\ readme' # readme)]_vars

\* C7 amended: with no marker line in the summary document write_readme
\* raises (IndexError on a document with lines, the loop leaving the last
\* index; UnboundLocalError on an empty one) before it writes, and the
\* file is left as it was.
C7_RaisesUnwritten ==
  [][(pc = "readme" /\ MarkerLines(readme) = {}) =>
       /\ pc' = "raised"
       /\ err' = (IF readme = <<>> THEN "UnboundLocalError" ELSE "IndexError")
       /\ readme' = readme]_vars

\* write_readme has raised on a document of several lines, none a marker.
C7_Witness ==
  /\ pc = "raised"
  /\ err = "IndexError"
  /\ Len(readme) = MaxLines
  /\ MarkerLines(readme) = {}

====
